---- MODULE Spec2Model ----
(***************************************************************************)
(* The Sorna manager: the request server handle_api with its two kernel    *)
(* drivers (src/sorna/manager.py) and the event dispatcher and subscriber  *)
(* of the gateway (src/sorna/gateway/events.py).                           *)
(*                                                                         *)
(* Strings the code formats or parses are tuples here, so that formatting  *)
(* and parsing are real operations: AgentSock builds 'tcp://ip:port',      *)
(* UrlPort parses the port back out, LocalKernelId and DockerKernelId      *)
(* build the kernel ids, Text(s) is the string s of a message field and    *)
(* << >> is the empty string ''.                                           *)
(***************************************************************************)
EXTENDS Integers, Sequences, FiniteSets, TLC

VARIABLES
    kernel_driver,      \* module global kernel_driver: "docker" or "local"
    instance_registry,  \* module global: tag -> Instance
    kernel_registry,    \* module global: kernel id -> Kernel
    next_uuid,          \* source of uuid.uuid4() values and container ids
    issued,             \* every kernel id ever written to kernel_registry
    inbox,              \* request frames that reached the REP socket, unread
    nsent,              \* number of request frames sent so far
    pc,                 \* where the handle_api task is
    req,                \* the request handle_api read last
    instance,           \* handle_api local: tag find_avail_instance returned
    kernel_id,          \* local of create_kernel and handle_api: the new id
    agent_port,         \* create_kernel local: the port it reserved
    tries,              \* handle_api local
    pings,              \* ping_kernel calls made for the request in req
    ping_outcome,       \* what the agent and the transport did to the last one
    ping_result,        \* what the last ping_kernel call returned or did
    exc,                \* the exception that ended the handle_api task
    resp,               \* the response frame written last
    answered,           \* seq numbers of the requests answered, in order
    pre,                \* the registries when req was read
    handlers,           \* EventDispatcher.handlers: event name -> handlers
    sub_pc,             \* where the event_subscriber task is
    bus,                \* frames on the local bus, not yet read
    nframes,            \* frames put on the bus so far
    received,           \* frames event_subscriber read, in order
    ready,              \* the event loop's queue of scheduled callbacks
    invoked,            \* handler invocations begun, in order
    sub_exc,            \* what the subscriber's except clauses caught
    sock_closed,        \* event_sock.close() was called
    shutdown            \* how shutdown(app) ended, and what it found

mvars == <<kernel_driver, instance_registry, kernel_registry, next_uuid, issued,
           inbox, nsent, pc, req, instance, kernel_id, agent_port, tries, pings,
           ping_outcome, ping_result, exc, resp, answered, pre>>
evars == <<handlers, sub_pc, bus, nframes, received, ready, invoked, sub_exc,
           sock_closed, shutdown>>
vars == <<mvars, evars>>

----------------------------------------------------------------------------
(* Bounds of the model. *)

MaxRequests == 3
MaxInbox == 2
MaxFrames == 3

(* Program constants. *)

AgentPortLo == 5002
AgentPortHi == 5010
DefaultMaxKernels == 2
MaxTries == 5

AgentPortRange == [i \in 1..(AgentPortHi - AgentPortLo) |-> AgentPortLo + i - 1]

Loopback == "127.0.0.1"
VmIp == "10.0.0.2"
InstanceOrder == <<"test", "vm">>

Text(s) == <<s>>
Empty == << >>

AgentSock(ip, port) == <<"tcp", ip, port>>
UrlPort(sock) == sock[3]
LocalKernelId(uuid) == <<"local", uuid>>
DockerKernelId(ip, cid) == <<"docker", ip, cid>>

Instance(ip, max_kernels) ==
    [ip |-> ip, max_kernels |-> max_kernels, cur_kernels |-> 0,
     used_ports |-> {}, used_ports_is_none |-> TRUE]

Kernel(tag, sock, priv) ==
    [instance |-> tag, agent_sock |-> sock, stdin_sock |-> "None",
     stdout_sock |-> "None", stderr_sock |-> "None", priv |-> priv]

NoReq == [seq |-> 0, action |-> "NONE", kernel_id |-> Empty, body |-> Empty]
NoResp == [seq |-> 0, reply |-> "NONE", kernel_id |-> Empty, body |-> Empty]

----------------------------------------------------------------------------
(* The drivers' pure parts. *)

UsedPorts(inst) == IF inst.used_ports_is_none THEN {} ELSE inst.used_ports

(* LocalEligible without the loopback filter. *)
LocalEligibleAnyAddress(inst) == inst.cur_kernels < inst.max_kernels

(* The tests of find_avail_instance on one instance. *)
DockerEligible(inst) == inst.cur_kernels < inst.max_kernels
LocalEligible(inst) == inst.ip = Loopback /\ inst.cur_kernels < inst.max_kernels

(* find_avail_instance: the first instance, in the registry's order, with  *)
(* headroom (and, for the local driver, the loopback address), or None.    *)
RECURSIVE DockerFirst(_, _)
DockerFirst(order, ir) ==
    IF order = << >> THEN "None"
    ELSE IF Head(order) \in DOMAIN ir /\ DockerEligible(ir[Head(order)])
         THEN Head(order)
    ELSE DockerFirst(Tail(order), ir)

RECURSIVE LocalFirst(_, _)
LocalFirst(order, ir) ==
    IF order = << >> THEN "None"
    ELSE IF Head(order) \in DOMAIN ir /\ LocalEligible(ir[Head(order)])
         THEN Head(order)
    ELSE LocalFirst(Tail(order), ir)

DockerFindAvailInstance(ir) == DockerFirst(InstanceOrder, ir)
LocalFindAvailInstance(ir) == LocalFirst(InstanceOrder, ir)
FindAvailInstance(ir) ==
    IF kernel_driver = "docker" THEN DockerFindAvailInstance(ir)
    ELSE LocalFindAvailInstance(ir)

(* instance.cur_kernels += 1 of find_avail_instance. *)
Claim(ir, tag) == [ir EXCEPT ![tag].cur_kernels = @ + 1]

(* DockerCapacityOk with the local driver's strict comparison. *)
DockerCapacityStrict(inst) == inst.max_kernels < Len(AgentPortRange)

(* The capacity assertions of create_kernel. *)
DockerCapacityOk(inst) == inst.max_kernels <= Len(AgentPortRange)
LocalCapacityOk(inst) == inst.max_kernels < Len(AgentPortRange)

(* The port loop of create_kernel: the first port of AgentPortRange not in *)
(* used_ports, 0 when there is none.                                       *)
RECURSIVE FirstFree(_, _)
FirstFree(range, used) ==
    IF range = << >> THEN 0
    ELSE IF Head(range) \notin used THEN Head(range)
    ELSE FirstFree(Tail(range), used)

(* PickPort scanning AgentPortRange from its far end. *)
PickPortHighest(used) ==
    LET free == {AgentPortRange[i] : i \in DOMAIN AgentPortRange} \ used
    IN IF free = {} THEN 0 ELSE CHOOSE p \in free : \A q \in free : q <= p

PickPort(used) == FirstFree(AgentPortRange, used)

(* if instance.used_ports is None: instance.used_ports = set() *)
LazyInit(ir, tag) ==
    [ir EXCEPT ![tag].used_ports_is_none = FALSE,
               ![tag].used_ports = UsedPorts(ir[tag])]

(* Reserve leaving used_ports as it is. *)
ReserveNothing(ir, tag, port) == ir

(* instance.used_ports.add(p), for the port the loop found (0: none). *)
Reserve(ir, tag, port) ==
    IF port = 0 THEN ir ELSE [ir EXCEPT ![tag].used_ports = @ \cup {port}]

(* kernel_registry[kernel_id] = kernel *)
Register(kr, kid, kernel) ==
    [k \in DOMAIN kr \cup {kid} |-> IF k = kid THEN kernel ELSE kr[k]]

(* del kernel_registry[kernel_id] *)
Unregister(kr, kid) == [k \in DOMAIN kr \ {kid} |-> kr[k]]

(* kernel.instance.cur_kernels -= 1 of destroy_kernel. *)
Release(ir, tag) == [ir EXCEPT ![tag].cur_kernels = @ - 1]

(* kernel.instance.used_ports.remove(agent_url.port) *)
RemovePort(ir, tag, port) == [ir EXCEPT ![tag].used_ports = @ \ {port}]

(* get_socket_info: the three endpoints the agent reported. *)
WithSocketInfo(kr, kid) ==
    [kr EXCEPT ![kid].stdin_sock = "stdin", ![kid].stdout_sock = "stdout",
               ![kid].stderr_sock = "stderr"]

(* json.dumps of the SUCCESS body of a CREATE. *)
JsonBody(kernel) ==
    <<"json", kernel.agent_sock, "null", kernel.stdout_sock, kernel.stderr_sock>>

----------------------------------------------------------------------------
(* The state handle_api starts in.  The module is loaded with one loopback *)
(* instance 'test' (max_kernels 2) and no kernel; the drivers leave        *)
(* kernels behind (create_kernel of the container driver registers its     *)
(* kernel before it raises), so handle_api may start with n kernels on the *)
(* n lowest ports of 'test'.  A second, remote instance 'vm' may be        *)
(* registered.                                                             *)

BootKernelId(driver, ip, n) ==
    IF driver = "docker" THEN DockerKernelId(ip, n) ELSE LocalKernelId(n)

BootKernel(driver, tag, ip, n) ==
    IF driver = "docker"
    THEN Kernel(tag, AgentSock(ip, AgentPortRange[n]), "container")
    ELSE [Kernel(tag, AgentSock(ip, AgentPortRange[n]), "proc")
            EXCEPT !.stdin_sock = "stdin", !.stdout_sock = "stdout",
                   !.stderr_sock = "stderr"]

BootInstance(ip, max_kernels, n) ==
    IF n = 0 THEN Instance(ip, max_kernels)
    ELSE [Instance(ip, max_kernels) EXCEPT
            !.cur_kernels = n, !.used_ports_is_none = FALSE,
            !.used_ports = {AgentPortRange[i] : i \in 1..n}]

BootRegistry(max_kernels, n, with_vm, vm_max) ==
    IF with_vm
    THEN [t \in {"test", "vm"} |->
            IF t = "test" THEN BootInstance(Loopback, max_kernels, n)
            ELSE Instance(VmIp, vm_max)]
    ELSE [t \in {"test"} |-> BootInstance(Loopback, max_kernels, n)]

BootKernels(driver, n) ==
    [k \in {BootKernelId(driver, Loopback, i) : i \in 1..n} |->
        BootKernel(driver, "test", Loopback, k[Len(k)])]

ManagerInit(loads, vm_maxes) ==
    /\ kernel_driver \in {"docker", "local"}
    /\ \E load \in loads, with_vm \in BOOLEAN, vm_max \in vm_maxes :
         /\ instance_registry = BootRegistry(load[1], load[2], with_vm, vm_max)
         /\ kernel_registry = BootKernels(kernel_driver, load[2])
         /\ next_uuid = load[2] + 1
         /\ issued = DOMAIN BootKernels(kernel_driver, load[2])
    /\ inbox = << >>
    /\ nsent = 0
    /\ pc = "read"
    /\ req = NoReq
    /\ instance = "None"
    /\ kernel_id = Empty
    /\ agent_port = 0
    /\ tries = 0
    /\ pings = 0
    /\ ping_outcome = "none"
    /\ ping_result = "none"
    /\ exc = "none"
    /\ resp = NoResp
    /\ answered = << >>
    /\ pre = [ir |-> instance_registry, kr |-> kernel_registry]

ManagerIdle ==
    /\ kernel_driver = "docker"
    /\ instance_registry = BootRegistry(DefaultMaxKernels, 0, FALSE, 1)
    /\ kernel_registry = BootKernels("docker", 0)
    /\ next_uuid = 1
    /\ issued = {}
    /\ inbox = << >>
    /\ nsent = 0
    /\ pc = "read"
    /\ req = NoReq
    /\ instance = "None"
    /\ kernel_id = Empty
    /\ agent_port = 0
    /\ tries = 0
    /\ pings = 0
    /\ ping_outcome = "none"
    /\ ping_result = "none"
    /\ exc = "none"
    /\ resp = NoResp
    /\ answered = << >>
    /\ pre = [ir |-> instance_registry, kr |-> kernel_registry]

----------------------------------------------------------------------------
(* Clients of the REP socket. *)

Requests ==
    {[action |-> "PING", kernel_id |-> Empty, body |-> Text(b)] : b \in {"abc", "xyz"}}
    \cup {[action |-> "CREATE", kernel_id |-> Empty, body |-> Empty]}
    \cup {[action |-> "DESTROY", kernel_id |-> k, body |-> Empty] :
            k \in issued \cup {LocalKernelId(0)}}

(* A client sends a request frame. *)
ClientSend ==
    /\ nsent < MaxRequests
    /\ Len(inbox) < MaxInbox
    /\ \E r \in Requests :
         inbox' = Append(inbox, [seq |-> nsent + 1, action |-> r.action,
                                 kernel_id |-> r.kernel_id, body |-> r.body])
    /\ nsent' = nsent + 1
    /\ UNCHANGED <<kernel_driver, instance_registry, kernel_registry, next_uuid,
                   issued, pc, req, instance, kernel_id, agent_port, tries,
                   pings, ping_outcome, ping_result, exc, resp, answered, pre>>
    /\ UNCHANGED evars

----------------------------------------------------------------------------
(* handle_api, one action per stretch between two suspension points. *)

(* req_data = yield from server.read(): the next frame, when handle_api    *)
(* waits for one.                                                          *)
Reads(action) ==
    /\ pc = "read"
    /\ inbox # << >>
    /\ Head(inbox).action = action
    /\ req' = Head(inbox)
    /\ inbox' = Tail(inbox)
    /\ pre' = [ir |-> instance_registry, kr |-> kernel_registry]
    /\ pings' = 0
    /\ ping_outcome' = "none"
    /\ ping_result' = "none"

(* server.write([resp.SerializeToString()]) *)
Write(reply, kid, body, r) ==
    /\ resp' = [seq |-> r.seq, reply |-> reply, kernel_id |-> kid, body |-> body]
    /\ answered' = Append(answered, r.seq)

(* An exception leaves handle_api: the task ends, nothing is written. *)
Raise(e) ==
    /\ pc' = "crashed"
    /\ exc' = e
    /\ UNCHANGED <<resp, answered>>

(* PongBody leaving the body of the reply empty. *)
PongBodyEmpty(r) == Empty

(* resp.body = req.body (line 242). *)
PongBody(r) == r.body

(* PING: lines 238-242 and 299. *)
HandlePing ==
    /\ Reads("PING")
    /\ Write("PONG", Empty, PongBody(Head(inbox)), Head(inbox))
    /\ UNCHANGED <<kernel_driver, instance_registry, kernel_registry, next_uuid,
                   issued, nsent, pc, instance, kernel_id, agent_port, tries, exc>>
    /\ UNCHANGED evars

(* CREATE, find_avail_instance returns None: lines 246-252. *)
HandleCreateNoInstance ==
    /\ Reads("CREATE")
    /\ FindAvailInstance(instance_registry) = "None"
    /\ instance' = "None"
    /\ Write("FAILURE", Empty,
             Text("No instance is available to launch a new kernel."), Head(inbox))
    /\ pc' = "returned"
    /\ UNCHANGED <<kernel_driver, instance_registry, kernel_registry, next_uuid,
                   issued, nsent, kernel_id, agent_port, tries, exc>>
    /\ UNCHANGED evars

(* CREATE under the container driver: find_avail_instance and the whole of *)
(* DockerKernelDriver.create_kernel, which does not suspend.  The docker   *)
(* API calls succeed or raise; when they succeed the kernel is registered  *)
(* and 'return kernel_id' names a variable the function never binds.       *)
DockerCreate ==
    /\ kernel_driver = "docker"
    /\ Reads("CREATE")
    /\ DockerFindAvailInstance(instance_registry) # "None"
    /\ LET tag == DockerFindAvailInstance(instance_registry)
           claimed == LazyInit(Claim(instance_registry, tag), tag)
           port == PickPort(claimed[tag].used_ports)
           reserved == Reserve(claimed, tag, port)
           kid == DockerKernelId(claimed[tag].ip, next_uuid)
           kernel == Kernel(tag, AgentSock(claimed[tag].ip, port), "container")
       IN /\ instance' = tag
          /\ IF ~DockerCapacityOk(claimed[tag])
             THEN /\ instance_registry' = claimed
                  /\ agent_port' = 0
                  /\ Raise("AssertionError")
                  /\ UNCHANGED <<kernel_registry, next_uuid, issued>>
             ELSE IF port = 0
             THEN /\ instance_registry' = reserved
                  /\ agent_port' = 0
                  /\ Raise("AssertionError")
                  /\ UNCHANGED <<kernel_registry, next_uuid, issued>>
             ELSE \E api_ok \in BOOLEAN :
                    /\ instance_registry' = reserved
                    /\ agent_port' = port
                    /\ IF api_ok
                       THEN /\ kernel_registry' = Register(kernel_registry, kid, kernel)
                            /\ issued' = issued \cup {kid}
                            /\ next_uuid' = next_uuid + 1
                            /\ Raise("NameError")
                       ELSE /\ Raise("DockerException")
                            /\ UNCHANGED <<kernel_registry, next_uuid, issued>>
    /\ UNCHANGED <<kernel_driver, nsent, kernel_id, tries>>
    /\ UNCHANGED evars

(* CREATE under the local driver: find_avail_instance and                  *)
(* LocalKernelDriver.create_kernel up to its suspension in                 *)
(* create_subprocess_exec (lines 166-192).                                 *)
LocalCreatePlace ==
    /\ kernel_driver = "local"
    /\ Reads("CREATE")
    /\ LocalFindAvailInstance(instance_registry) # "None"
    /\ LET tag == LocalFindAvailInstance(instance_registry)
           claimed == LazyInit(Claim(instance_registry, tag), tag)
           port == PickPort(claimed[tag].used_ports)
           reserved == Reserve(claimed, tag, port)
       IN /\ instance' = tag
          /\ IF ~LocalCapacityOk(claimed[tag])
             THEN /\ instance_registry' = claimed
                  /\ agent_port' = 0
                  /\ Raise("AssertionError")
                  /\ UNCHANGED <<kernel_id, next_uuid>>
             ELSE IF port = 0
             THEN /\ instance_registry' = reserved
                  /\ agent_port' = 0
                  /\ Raise("AssertionError")
                  /\ UNCHANGED <<kernel_id, next_uuid>>
             ELSE /\ instance_registry' = reserved
                  /\ agent_port' = port
                  /\ kernel_id' = LocalKernelId(next_uuid)
                  /\ next_uuid' = next_uuid + 1
                  /\ pc' = "spawn"
                  /\ UNCHANGED <<exc, resp, answered>>
    /\ UNCHANGED <<kernel_driver, kernel_registry, issued, nsent, tries>>
    /\ UNCHANGED evars

(* create_subprocess_exec returns or raises; create_kernel registers the   *)
(* kernel (lines 192-197).                                                 *)
LocalCreateSpawned ==
    /\ pc = "spawn"
    /\ \E spawn_ok \in BOOLEAN :
         IF spawn_ok
         THEN /\ kernel_registry' =
                    Register(kernel_registry, kernel_id,
                             Kernel(instance,
                                    AgentSock(instance_registry[instance].ip, agent_port),
                                    "proc"))
              /\ issued' = issued \cup {kernel_id}
              /\ pc' = "warmup"
              /\ UNCHANGED <<exc, resp, answered>>
         ELSE /\ Raise("OSError")
              /\ UNCHANGED <<kernel_registry, issued>>
    /\ UNCHANGED <<kernel_driver, instance_registry, next_uuid, inbox, nsent, req,
                   instance, kernel_id, agent_port, tries, pings, ping_outcome,
                   ping_result, pre>>
    /\ UNCHANGED evars

(* yield from asyncio.sleep(0.2); tries = 0 (lines 255-257). *)
Warmup ==
    /\ pc = "warmup"
    /\ tries' = 0
    /\ pc' = "ping"
    /\ UNCHANGED <<kernel_driver, instance_registry, kernel_registry, next_uuid,
                   issued, inbox, nsent, req, instance, kernel_id, agent_port,
                   pings, ping_outcome, ping_result, exc, resp, answered, pre>>
    /\ UNCHANGED evars

(* What the agent and the transport do to one ping_kernel call. *)
PingOutcomes == {"echo", "other_body", "timeout", "io_error"}

(* ping_kernel (lines 76-92): resp.body == req_id for a reply in time,     *)
(* False on asyncio.TimeoutError; any other exception is not caught.       *)
PingKernel(outcome) ==
    CASE outcome = "echo" -> "True"
      [] outcome = "other_body" -> "False"
      [] outcome = "timeout" -> "False"
      [] OTHER -> "raise"

(* One turn of the probe loop: success = yield from ping_kernel (259-261). *)
Ping ==
    /\ pc = "ping"
    /\ pings' = pings + 1
    /\ \E outcome \in PingOutcomes :
      /\ ping_outcome' = outcome
      /\ ping_result' = PingKernel(outcome)
      /\ CASE PingKernel(outcome) = "True" ->
                /\ pc' = "sockinfo"
                /\ UNCHANGED <<exc, resp, answered>>
           [] PingKernel(outcome) = "False" ->
                /\ pc' = "retry"
                /\ UNCHANGED <<exc, resp, answered>>
           [] OTHER -> Raise("OSError")
    /\ UNCHANGED <<kernel_driver, instance_registry, kernel_registry, next_uuid,
                   issued, inbox, nsent, req, instance, kernel_id, agent_port,
                   tries, pre>>
    /\ UNCHANGED evars

(* ProbeAgain with an inclusive comparison. *)
ProbeAgainInclusive(t) == t <= MaxTries

(* The loop test while tries < 5 (line 258). *)
ProbeAgain(t) == t < MaxTries

(* RetrySleep without the while's else clause: an exhausted loop falls     *)
(* through to get_socket_info.                                             *)
RetrySleepFallsThrough ==
    /\ pc = "retry"
    /\ tries' = tries + 1
    /\ pc' = IF ProbeAgain(tries + 1) THEN "ping" ELSE "sockinfo"
    /\ UNCHANGED <<kernel_driver, instance_registry, kernel_registry, next_uuid,
                   issued, inbox, nsent, req, instance, kernel_id, agent_port,
                   pings, ping_outcome, ping_result, exc, resp, answered, pre>>
    /\ UNCHANGED evars

(* The failed turn goes on: sleep(1); tries += 1; the loop test and the    *)
(* while's else clause (lines 258, 262-271).                               *)
RetrySleep ==
    /\ pc = "retry"
    /\ tries' = tries + 1
    /\ IF ProbeAgain(tries + 1)
       THEN /\ pc' = "ping"
            /\ UNCHANGED <<resp, answered>>
       ELSE /\ Write("FAILURE", Empty, Text("The created kernel did not respond!"), req)
            /\ pc' = "returned"
    /\ UNCHANGED <<kernel_driver, instance_registry, kernel_registry, next_uuid,
                   issued, inbox, nsent, req, instance, kernel_id, agent_port,
                   pings, ping_outcome, ping_result, exc, pre>>
    /\ UNCHANGED evars

(* get_socket_info, then the SUCCESS reply (lines 273-285, 299). *)
SocketInfo ==
    /\ pc = "sockinfo"
    /\ \E info_ok \in BOOLEAN :
         IF info_ok
         THEN /\ kernel_registry' = WithSocketInfo(kernel_registry, kernel_id)
              /\ Write("SUCCESS", kernel_id, JsonBody(kernel_registry'[kernel_id]), req)
              /\ pc' = "read"
              /\ UNCHANGED exc
         ELSE /\ Raise("OSError")
              /\ UNCHANGED kernel_registry
    /\ UNCHANGED <<kernel_driver, instance_registry, next_uuid, issued, inbox,
                   nsent, req, instance, kernel_id, agent_port, tries, pings,
                   ping_outcome, ping_result, pre>>
    /\ UNCHANGED evars

(* HandleDestroyUnknown ending with the return of the CREATE failure       *)
(* branches: the reply is built and handle_api returns without writing it. *)
HandleDestroyUnknownReturns ==
    /\ Reads("DESTROY")
    /\ Head(inbox).kernel_id \notin DOMAIN kernel_registry
    /\ pc' = "returned"
    /\ UNCHANGED <<kernel_driver, instance_registry, kernel_registry, next_uuid,
                   issued, nsent, instance, kernel_id, agent_port, tries, exc,
                   resp, answered>>
    /\ UNCHANGED evars

(* DESTROY of an id that is not in kernel_registry (lines 294-299). *)
HandleDestroyUnknown ==
    /\ Reads("DESTROY")
    /\ Head(inbox).kernel_id \notin DOMAIN kernel_registry
    /\ Write("INVALID_INPUT", Empty, Text("No such kernel."), Head(inbox))
    /\ UNCHANGED <<kernel_driver, instance_registry, kernel_registry, next_uuid,
                   issued, nsent, pc, instance, kernel_id, agent_port, tries, exc>>
    /\ UNCHANGED evars

(* DESTROY under the container driver: the whole of                        *)
(* DockerKernelDriver.destroy_kernel, which ends in                        *)
(* raise NotImplementedError() (lines 152-160).                            *)
DockerDestroy ==
    /\ kernel_driver = "docker"
    /\ Reads("DESTROY")
    /\ Head(inbox).kernel_id \in DOMAIN kernel_registry
    /\ LET kid == Head(inbox).kernel_id
           kernel == kernel_registry[kid]
           released == Release(instance_registry, kernel.instance)
           port == UrlPort(kernel.agent_sock)
       IN IF released[kernel.instance].cur_kernels < 0
          THEN /\ instance_registry' = released
               /\ Raise("AssertionError")
               /\ UNCHANGED kernel_registry
          ELSE IF port \notin released[kernel.instance].used_ports
          THEN /\ instance_registry' = released
               /\ Raise("KeyError")
               /\ UNCHANGED kernel_registry
          ELSE /\ instance_registry' = RemovePort(released, kernel.instance, port)
               /\ kernel_registry' = Unregister(kernel_registry, kid)
               /\ Raise("NotImplementedError")
    /\ UNCHANGED <<kernel_driver, next_uuid, issued, nsent, instance, kernel_id,
                   agent_port, tries>>
    /\ UNCHANGED evars

(* DESTROY under the local driver: LocalKernelDriver.destroy_kernel up to  *)
(* its suspension in proc.wait() (lines 200-206).  proc.terminate() raises *)
(* ProcessLookupError for a process that has already exited.               *)
LocalDestroyTerminate ==
    /\ kernel_driver = "local"
    /\ Reads("DESTROY")
    /\ Head(inbox).kernel_id \in DOMAIN kernel_registry
    /\ LET kid == Head(inbox).kernel_id
           kernel == kernel_registry[kid]
           released == Release(instance_registry, kernel.instance)
       IN /\ instance_registry' = released
          /\ IF released[kernel.instance].cur_kernels < 0
             THEN Raise("AssertionError")
             ELSE \E proc_alive \in BOOLEAN :
                    IF proc_alive
                    THEN /\ pc' = "teardown"
                         /\ UNCHANGED <<exc, resp, answered>>
                    ELSE Raise("ProcessLookupError")
    /\ UNCHANGED <<kernel_driver, kernel_registry, next_uuid, issued, nsent,
                   instance, kernel_id, agent_port, tries>>
    /\ UNCHANGED evars

(* proc.wait() returns; the port is released, the kernel removed and the   *)
(* SUCCESS reply written (lines 206-209, 291-293, 299).                    *)
LocalDestroyWaited ==
    /\ pc = "teardown"
    /\ LET kid == req.kernel_id
           kernel == kernel_registry[kid]
           port == UrlPort(kernel.agent_sock)
       IN IF port \notin UsedPorts(instance_registry[kernel.instance])
          THEN /\ Raise("KeyError")
               /\ UNCHANGED <<instance_registry, kernel_registry>>
          ELSE /\ instance_registry' = RemovePort(instance_registry, kernel.instance, port)
               /\ kernel_registry' = Unregister(kernel_registry, kid)
               /\ Write("SUCCESS", kid, Empty, req)
               /\ pc' = "read"
               /\ UNCHANGED exc
    /\ UNCHANGED <<kernel_driver, next_uuid, issued, inbox, nsent, req, instance,
                   kernel_id, agent_port, tries, pings, ping_outcome,
                   ping_result, pre>>
    /\ UNCHANGED evars

ManagerNext ==
    \/ ClientSend
    \/ HandlePing
    \/ HandleCreateNoInstance
    \/ DockerCreate
    \/ LocalCreatePlace
    \/ LocalCreateSpawned
    \/ Warmup
    \/ Ping
    \/ RetrySleep
    \/ SocketInfo
    \/ HandleDestroyUnknown
    \/ DockerDestroy
    \/ LocalDestroyTerminate
    \/ LocalDestroyWaited

----------------------------------------------------------------------------
(* The event plane: event_router, EventDispatcher and event_subscriber.    *)

EventNames == {"instance_heartbeat", "kernel_terminated"}
HandlerKinds == {"async", "immediate"}

(* shutdown(app) has not been called. *)
NotShutDown == [result |-> "none", received |-> 0, scheduled |-> 0]

EventsIdle ==
    /\ handlers = [n \in EventNames |-> << >>]
    /\ sub_pc = "reading"
    /\ bus = << >>
    /\ nframes = 0
    /\ received = << >>
    /\ ready = << >>
    /\ invoked = << >>
    /\ sub_exc = "none"
    /\ sock_closed = FALSE
    /\ shutdown = NotShutDown

(* init (lines 77-81): the dispatcher has no handler and the subscriber    *)
(* task is created; it has yet to open its socket (lines 60-61).           *)
EventsInit ==
    /\ handlers = [n \in EventNames |-> << >>]
    /\ sub_pc = "connecting"
    /\ bus = << >>
    /\ nframes = 0
    /\ received = << >>
    /\ ready = << >>
    /\ invoked = << >>
    /\ sub_exc = "none"
    /\ sock_closed = FALSE
    /\ shutdown = NotShutDown

MaxHandlers == 2

Frames == [event_name : EventNames, agent_id : {"a"}, decodes : BOOLEAN]

(* CallSoon putting the callback at the head of the queue. *)
CallSoonFirst(queue, callback) == <<callback>> \o queue

(* loop.create_task and loop.call_soon: the callback joins the end of the  *)
(* loop's queue of ready callbacks.                                        *)
CallSoon(queue, callback) == Append(queue, callback)

(* The loop runs the callback at the head of its queue. *)
NextReady(queue) == Head(queue)

(* EventDispatcher.add_handler *)
AddHandler ==
    /\ Len(handlers["instance_heartbeat"]) + Len(handlers["kernel_terminated"])
         < MaxHandlers
    /\ \E n \in EventNames, kind \in HandlerKinds :
         handlers' = [handlers EXCEPT ![n] =
             Append(@, [id |-> Len(handlers["instance_heartbeat"])
                               + Len(handlers["kernel_terminated"]) + 1,
                        kind |-> kind])]
    /\ UNCHANGED <<sub_pc, bus, nframes, received, ready, invoked, sub_exc,
                   sock_closed, shutdown>>
    /\ UNCHANGED mvars

(* event_router: zmq.proxy forwards an agent's frame onto the local bus. *)
RouterForward ==
    /\ nframes < MaxFrames
    /\ \E f \in Frames :
         bus' = Append(bus, [no |-> nframes + 1, event_name |-> f.event_name,
                             agent_id |-> f.agent_id, decodes |-> f.decodes])
    /\ nframes' = nframes + 1
    /\ UNCHANGED <<handlers, sub_pc, received, ready, invoked, sub_exc, sock_closed,
                   shutdown>>
    /\ UNCHANGED mvars

(* EventDispatcher.dispatch (lines 48-56): the handlers of the name in     *)
(* order of registration.  A coroutine function becomes a task; for any    *)
(* other callable the name functools is looked up, which the module never  *)
(* imports, and the NameError leaves the loop over the handlers.           *)
RECURSIVE Dispatch(_, _, _)
Dispatch(hs, frame, queue) ==
    IF hs = << >> THEN [queue |-> queue, raised |-> "none"]
    ELSE IF Head(hs).kind = "async"
    THEN Dispatch(Tail(hs), frame,
                  CallSoon(queue, [handler |-> Head(hs).id, frame |-> frame.no,
                                   event_name |-> frame.event_name]))
    ELSE [queue |-> queue, raised |-> "NameError"]

(* event_subscriber, lines 60-61: create_zmq_stream returns the connected  *)
(* socket, or raises; nothing catches the error there, it ends the task.   *)
SubscriberConnect ==
    /\ sub_pc = "connecting"
    /\ \E connect_ok \in BOOLEAN :
         sub_pc' = IF connect_ok THEN "reading" ELSE "failed"
    /\ UNCHANGED <<handlers, bus, nframes, received, ready, invoked, sub_exc,
                   sock_closed, shutdown>>
    /\ UNCHANGED mvars

(* event_subscriber (lines 63-74): one frame is read, decoded and          *)
(* dispatched; an exception of the decoding or of dispatch is logged by    *)
(* the bare except and ends the loop, and the finally closes the socket.   *)
SubscriberRead ==
    /\ sub_pc = "reading"
    /\ bus # << >>
    /\ bus' = Tail(bus)
    /\ received' = Append(received, Head(bus))
    /\ LET frame == Head(bus)
           out == Dispatch(handlers[frame.event_name], frame, ready)
       IN IF ~frame.decodes
          THEN /\ sub_exc' = "DecodeError"
               /\ sub_pc' = "done"
               /\ sock_closed' = TRUE
               /\ UNCHANGED ready
          ELSE /\ ready' = out.queue
               /\ sub_exc' = out.raised
               /\ sub_pc' = IF out.raised = "none" THEN "reading" ELSE "done"
               /\ sock_closed' = (out.raised # "none")
    /\ UNCHANGED <<handlers, nframes, invoked, shutdown>>
    /\ UNCHANGED mvars

(* The loop starts the next scheduled handler; the handler returns or      *)
(* raises inside its own task.                                             *)
RunReady ==
    /\ ready # << >>
    /\ \E raises \in BOOLEAN :
         invoked' = Append(invoked, [handler |-> NextReady(ready).handler,
                                     frame |-> NextReady(ready).frame,
                                     event_name |-> NextReady(ready).event_name,
                                     raised |-> raises])
    /\ ready' = Tail(ready)
    /\ UNCHANGED <<handlers, sub_pc, bus, nframes, received, sub_exc, sock_closed,
                   shutdown>>
    /\ UNCHANGED mvars

(* shutdown (lines 84-86) cancels the subscriber task and awaits it.  A    *)
(* task waiting in event_sock.read() is inside the try: CancelledError is  *)
(* passed over, the finally closes the socket and the task returns.  A     *)
(* task still in create_zmq_stream (lines 60-61) is outside the try: the   *)
(* CancelledError leaves the coroutine and is raised again by the await of *)
(* shutdown.                                                               *)
Shutdown ==
    /\ sub_pc \in {"connecting", "reading"}
    /\ IF sub_pc = "reading"
       THEN /\ sub_pc' = "done"
            /\ sub_exc' = "CancelledError"
            /\ sock_closed' = TRUE
            /\ shutdown' = [result |-> "returned", received |-> Len(received),
                            scheduled |-> Len(ready) + Len(invoked)]
       ELSE /\ sub_pc' = "cancelled"
            /\ shutdown' = [result |-> "CancelledError", received |-> Len(received),
                            scheduled |-> Len(ready) + Len(invoked)]
            /\ UNCHANGED <<sub_exc, sock_closed>>
    /\ UNCHANGED <<handlers, bus, nframes, received, ready, invoked>>
    /\ UNCHANGED mvars

EventsNext ==
    \/ AddHandler
    \/ RouterForward
    \/ SubscriberConnect
    \/ SubscriberRead
    \/ RunReady
    \/ Shutdown

----------------------------------------------------------------------------
(* The specifications. *)

(* The loads handle_api starts with: <<max_kernels, kernels placed>>. *)
Loads == {<<1, 0>>, <<DefaultMaxKernels, 0>>, <<DefaultMaxKernels, 1>>}

(* Loads at the edge of the port range. *)
CapLoads == {<<Len(AgentPortRange), Len(AgentPortRange) - 1>>,
             <<Len(AgentPortRange) - 1, Len(AgentPortRange) - 2>>}

Init == ManagerInit(Loads, {1}) /\ EventsIdle
Next == ManagerNext
Spec == Init /\ [][Next]_vars

CapInit == ManagerInit(CapLoads, {1}) /\ EventsIdle
SpecCap == CapInit /\ [][Next]_vars

InitEvents == ManagerIdle /\ EventsInit
SpecEvents == InitEvents /\ [][EventsNext]_vars

----------------------------------------------------------------------------
(* The claims. *)

(* handle_api is between two requests, or has ended. *)
Idle == pc \in {"read", "returned", "crashed"}

(* handle_api has ended: it returned, or an exception left it. *)
Ended == pc \in {"returned", "crashed"}

(* The request in req has been handled to its end. *)
Handled == req.seq # 0 /\ Idle

(* The request in req has been answered. *)
Answered == req.seq # 0 /\ resp.seq = req.seq

PortsHeld(ir) ==
    Cardinality({tp \in (DOMAIN ir) \X (AgentPortLo..(AgentPortHi - 1)) :
                    tp[2] \in UsedPorts(ir[tp[1]])})

(* C1: once a request has been handled, every instance has                 *)
(* 0 <= cur_kernels <= max_kernels and as many used ports as cur_kernels   *)
(* (an unset used_ports counting as empty).                                *)
C1_InstanceAccounting ==
    Idle => \A t \in DOMAIN instance_registry :
              /\ 0 <= instance_registry[t].cur_kernels
              /\ instance_registry[t].cur_kernels <= instance_registry[t].max_kernels
              /\ Cardinality(UsedPorts(instance_registry[t]))
                   = instance_registry[t].cur_kernels

(* C2: a CREATE that found an instance and whose five pings all failed is  *)
(* answered FAILURE 'The created kernel did not respond!', and afterwards  *)
(* the partial kernel is gone: cur_kernels as before the CREATE, the       *)
(* reserved port released, the kernel not in kernel_registry.              *)
ProbeFailed == req.action = "CREATE" /\ pc = "returned" /\ instance # "None"

C2_ProbeFailureCleansUp ==
    ProbeFailed =>
        /\ Answered
        /\ resp.reply = "FAILURE"
        /\ resp.body = Text("The created kernel did not respond!")
        /\ instance_registry[instance].cur_kernels = pre.ir[instance].cur_kernels
        /\ agent_port \notin UsedPorts(instance_registry[instance])
        /\ kernel_id \notin DOMAIN kernel_registry

(* An instance the configured driver may place a kernel on. *)
HasHeadroom(ir) ==
    \E t \in DOMAIN ir :
        /\ ir[t].cur_kernels < ir[t].max_kernels
        /\ kernel_driver = "local" => ir[t].ip = Loopback

(* The back-end or the agent failed the request in req. *)
BackendFailed ==
    \/ exc \in {"OSError", "DockerException", "ProcessLookupError"}
    \/ ProbeFailed

(* C3: under either driver a CREATE with an eligible instance, a back-end  *)
(* that spawns and an agent that answers is answered SUCCESS with the new  *)
(* kernel id, a key of kernel_registry; the instance has one kernel and    *)
(* one port more than before, kernel_registry one kernel more.             *)
C3_CreateSucceeds ==
    (req.action = "CREATE" /\ Handled /\ HasHeadroom(pre.ir) /\ ~BackendFailed) =>
        /\ Answered
        /\ resp.reply = "SUCCESS"
        /\ resp.kernel_id \in DOMAIN kernel_registry
        /\ DOMAIN kernel_registry = DOMAIN pre.kr \cup {resp.kernel_id}
        /\ resp.kernel_id \notin DOMAIN pre.kr
        /\ instance_registry[instance].cur_kernels = pre.ir[instance].cur_kernels + 1
        /\ UsedPorts(pre.ir[instance]) \subseteq UsedPorts(instance_registry[instance])
        /\ Cardinality(UsedPorts(instance_registry[instance]))
             = Cardinality(UsedPorts(pre.ir[instance])) + 1

(* C4: every request that reached the server is answered: handle_api does  *)
(* not end, its back-end calls having raised nothing, with a request read  *)
(* and unanswered or with a request left on the socket, and the answers    *)
(* are in the order of the requests.                                       *)
C4_EveryRequestAnswered ==
    /\ (Ended /\ exc \notin {"OSError", "DockerException", "ProcessLookupError"})
         => (inbox = << >> /\ (req.seq = 0 \/ Answered))
    /\ \A i \in DOMAIN answered : answered[i] = i

(* C5: under either driver a DESTROY of a kernel in kernel_registry, its   *)
(* back-end torn down, is answered SUCCESS; the kernel is gone, its port   *)
(* released, its instance has one kernel less, nothing else changed.       *)
C5_DestroyKnown ==
    (req.action = "DESTROY" /\ req.kernel_id \in DOMAIN pre.kr /\ Handled
       /\ exc # "ProcessLookupError") =>
        LET kernel == pre.kr[req.kernel_id]
            tag == kernel.instance
        IN /\ Answered
           /\ resp.reply = "SUCCESS"
           /\ req.kernel_id \notin DOMAIN kernel_registry
           /\ UrlPort(kernel.agent_sock) \notin UsedPorts(instance_registry[tag])
           /\ instance_registry[tag].cur_kernels = pre.ir[tag].cur_kernels - 1
           /\ \A t \in DOMAIN instance_registry \ {tag} :
                instance_registry[t] = pre.ir[t]
           /\ \A k \in DOMAIN pre.kr \ {req.kernel_id} :
                k \in DOMAIN kernel_registry /\ kernel_registry[k] = pre.kr[k]

(* C6: a CREATE with no eligible instance (under the local driver no       *)
(* loopback instance with headroom) is answered FAILURE, empty kernel_id,  *)
(* 'No instance is available to launch a new kernel.', and both registries *)
(* are as before.                                                          *)
C6_NoCapacity ==
    (req.action = "CREATE" /\ ~HasHeadroom(pre.ir)) =>
        /\ Answered
        /\ resp.reply = "FAILURE"
        /\ resp.kernel_id = Empty
        /\ resp.body = Text("No instance is available to launch a new kernel.")
        /\ instance_registry = pre.ir
        /\ kernel_registry = pre.kr

C6_Witness ==
    /\ kernel_driver = "local"
    /\ req.action = "CREATE"
    /\ Answered
    /\ resp.reply = "FAILURE"
    /\ "vm" \in DOMAIN instance_registry
    /\ instance_registry["vm"].cur_kernels < instance_registry["vm"].max_kernels
    /\ instance_registry["test"].cur_kernels = DefaultMaxKernels
    /\ instance_registry = pre.ir

(* C7: once a request has been handled, the ports held in all used_ports   *)
(* sets are as many as the kernels in kernel_registry.                     *)
C7_PortsEqualKernels ==
    Idle => PortsHeld(instance_registry) = Cardinality(DOMAIN kernel_registry)

(* C8: on an instance with max_kernels = |AgentPortRange| the container    *)
(* driver's create_kernel passes its capacity assertion and, the docker    *)
(* API answering, registers the kernel on a reserved port, up to the       *)
(* max_kernels-th kernel; the local driver's create_kernel fails its       *)
(* strict assertion and registers nothing and reserves no port.            *)
KernelsOn(kr, tag) == {k \in DOMAIN kr : kr[k].instance = tag}

C8_CapacityEdge ==
    (req.action = "CREATE" /\ Handled /\ instance # "None"
       /\ pre.ir[instance].max_kernels = Len(AgentPortRange)) =>
        IF kernel_driver = "docker"
        THEN /\ exc # "AssertionError"
             /\ exc = "NameError" =>
                  /\ Cardinality(KernelsOn(kernel_registry, instance))
                       = pre.ir[instance].cur_kernels + 1
                  /\ \E k \in DOMAIN kernel_registry \ DOMAIN pre.kr :
                       /\ kernel_registry[k].instance = instance
                       /\ UrlPort(kernel_registry[k].agent_sock)
                            \in UsedPorts(instance_registry[instance])
                                  \ UsedPorts(pre.ir[instance])
        ELSE /\ exc = "AssertionError"
             /\ kernel_registry = pre.kr
             /\ UsedPorts(instance_registry[instance]) = UsedPorts(pre.ir[instance])

C8_Witness ==
    /\ kernel_driver = "docker"
    /\ req.action = "CREATE"
    /\ exc = "NameError"
    /\ instance_registry["test"].max_kernels = Len(AgentPortRange)
    /\ Cardinality(KernelsOn(kernel_registry, "test")) = Len(AgentPortRange)
    /\ Cardinality(DOMAIN pre.kr) = Len(AgentPortRange) - 1

(* C9: a handler's invocations for an event name begin in the order in     *)
(* which event_subscriber received the frames of that name.                *)
ReceivedAt(no) == CHOOSE k \in DOMAIN received : received[k].no = no

C9_HandlerOrder ==
    \A i, j \in DOMAIN invoked :
        (i < j /\ invoked[i].handler = invoked[j].handler
               /\ invoked[i].event_name = invoked[j].event_name) =>
            ReceivedAt(invoked[i].frame) < ReceivedAt(invoked[j].frame)

C9_Witness ==
    \E i, j \in DOMAIN invoked :
        /\ i < j
        /\ invoked[i].handler = invoked[j].handler
        /\ invoked[i].frame # invoked[j].frame
        /\ \E k \in DOMAIN invoked : invoked[k].event_name # invoked[i].event_name

(* C10: a handler never ends the subscriber: after a frame that decodes    *)
(* and whose event name has handlers, the subscriber, unless cancelled,    *)
(* is reading again.                                                       *)
C10_HandlersNeverAbort ==
    (/\ received # << >>
     /\ received[Len(received)].decodes
     /\ handlers[received[Len(received)].event_name] # << >>
     /\ sub_exc # "CancelledError") => sub_pc = "reading"

(* C11: the readiness probe of one CREATE calls ping_kernel at most five   *)
(* times, exactly five times when every ping failed, and issues no ping    *)
(* after one that returned TRUE: the probe loop has then been left.        *)
C11_ProbeBound ==
    /\ pings <= 5
    /\ ProbeFailed => (pings = 5 /\ ping_result = "False")
    /\ ping_result = "True" => pc \notin {"warmup", "ping", "retry"}
    /\ pc \in {"ping", "retry"} => ping_result \in {"none", "False"}

C11_Witness ==
    /\ ProbeFailed
    /\ pings = 5
    /\ ping_outcome = "timeout"

(* C12: a PING with body B that handle_api read is answered PONG with an   *)
(* empty kernel_id and body B, and both registries are as they were when   *)
(* it was read.                                                            *)
C12_PingEchoes ==
    req.action = "PING" =>
        /\ Answered
        /\ resp.reply = "PONG"
        /\ resp.kernel_id = Empty
        /\ resp.body = req.body
        /\ instance_registry = pre.ir
        /\ kernel_registry = pre.kr

C12_Witness ==
    /\ req.action = "PING"
    /\ resp = [seq |-> req.seq, reply |-> "PONG", kernel_id |-> Empty,
               body |-> Text("xyz")]
    /\ kernel_registry # << >>
    /\ Len(answered) > 1

(* C13: a DESTROY of an id that is not in kernel_registry is answered      *)
(* INVALID_INPUT with body "No such kernel.", both registries are as they  *)
(* were, and handle_api is back at its read, so that the same request      *)
(* meets the same state again; this also for the id of a kernel that was   *)
(* destroyed before.                                                       *)
C13_UnknownDestroy ==
    (req.action = "DESTROY" /\ req.kernel_id \notin DOMAIN pre.kr) =>
        /\ Answered
        /\ resp.reply = "INVALID_INPUT"
        /\ resp.kernel_id = Empty
        /\ resp.body = Text("No such kernel.")
        /\ instance_registry = pre.ir
        /\ kernel_registry = pre.kr
        /\ pc = "read"

(* The id of a destroyed kernel, refused for the second time in a row. *)
C13_Witness ==
    /\ req.action = "DESTROY"
    /\ req.kernel_id \in issued
    /\ req.kernel_id \notin DOMAIN kernel_registry
    /\ resp.seq = req.seq
    /\ resp.reply = "INVALID_INPUT"
    /\ Len(answered) = 3

(* handle_api is suspended inside a CREATE or a DESTROY: in the back-end   *)
(* spawn, a sleep, a ping, the socket-info fetch or the back-end teardown. *)
Suspended == pc \in {"spawn", "warmup", "ping", "retry", "sockinfo", "teardown"}

(* C14: at no suspension point of a CREATE or DESTROY does an instance     *)
(* have a number of used ports different from its cur_kernels.             *)
C14_AtomicAccounting ==
    Suspended =>
        \A t \in DOMAIN instance_registry :
            Cardinality(UsedPorts(instance_registry[t]))
                = instance_registry[t].cur_kernels

(* create_kernel raised from the start of its back-end, after the port     *)
(* was reserved and before any ping.                                       *)
SpawnRaised ==
    /\ req.action = "CREATE"
    /\ instance # "None"
    /\ pc = "crashed"
    /\ exc \in {"OSError", "DockerException"}
    /\ pings = 0

(* C15: when create_kernel fails after reserving a port, the instance is   *)
(* left as it was before find_avail_instance chose it: the port is not in  *)
(* used_ports and cur_kernels is what it was.                              *)
C15_CreateFailureRollsBack ==
    SpawnRaised =>
        /\ agent_port \notin UsedPorts(instance_registry[instance])
        /\ UsedPorts(instance_registry[instance]) = UsedPorts(pre.ir[instance])
        /\ instance_registry[instance].cur_kernels = pre.ir[instance].cur_kernels

(* C16: a kernel is placed, spawned, probed and only then ready: the probe *)
(* runs on a registered kernel, get_socket_info is reached only after a    *)
(* ping of that kernel returned TRUE, and a CREATE is answered SUCCESS     *)
(* only after such a ping and with the socket info of the kernel filled in *)
(* by get_socket_info.                                                     *)
C16_SuccessAfterPing ==
    /\ pc \in {"warmup", "ping", "retry", "sockinfo"} =>
          (kernel_id \in DOMAIN kernel_registry /\ instance # "None")
    /\ pc = "sockinfo" => ping_result = "True"
    /\ (req.action = "CREATE" /\ Answered /\ resp.reply = "SUCCESS") =>
          /\ pings >= 1
          /\ ping_result = "True"
          /\ resp.kernel_id \in DOMAIN kernel_registry
          /\ kernel_registry[resp.kernel_id].stdin_sock # "None"
          /\ kernel_registry[resp.kernel_id].stdout_sock # "None"

(* SUCCESS for a kernel that answered its third ping. *)
C16_Witness ==
    /\ req.action = "CREATE"
    /\ resp.seq = req.seq
    /\ resp.reply = "SUCCESS"
    /\ pings = 3
    /\ tries = 2

(* C17: ping_kernel never raises: it returns TRUE exactly for a reply in   *)
(* time whose body is the token sent, and FALSE for a timeout, for a reply *)
(* with another body and for an I/O error.                                 *)
C17_PingNeverRaises ==
    ping_outcome # "none" =>
        ping_result = (IF ping_outcome = "echo" THEN "True" ELSE "False")

(* create_kernel has run for the CREATE in req, past its capacity          *)
(* assertion.                                                              *)
Placed == req.action = "CREATE" /\ instance # "None" /\ exc # "AssertionError"

(* C18: when the used ports of the chosen instance are a proper subset of  *)
(* AgentPortRange, create_kernel reserves the smallest port of the range   *)
(* that is not used, adds that port and no other to used_ports, and the    *)
(* new kernel's agent socket is tcp://<instance ip>:<that port>.           *)
C18_SmallestFreePort ==
    Placed =>
        LET used == UsedPorts(pre.ir[instance])
            free == (AgentPortLo..(AgentPortHi - 1)) \ used
        IN free # {} =>
             /\ agent_port \in free
             /\ \A p \in free : agent_port <= p
             /\ UsedPorts(instance_registry[instance]) = used \cup {agent_port}
             /\ \A k \in DOMAIN kernel_registry \ DOMAIN pre.kr :
                    /\ kernel_registry[k].instance = instance
                    /\ kernel_registry[k].agent_sock
                         = <<"tcp", instance_registry[instance].ip, agent_port>>

(* The lowest port is taken again while a higher one is in use. *)
C18_Witness ==
    /\ Placed
    /\ UsedPorts(pre.ir[instance]) = {AgentPortLo + 1}
    /\ agent_port = AgentPortLo
    /\ kernel_id \in DOMAIN kernel_registry \ DOMAIN pre.kr

(* C20: no two distinct kernels of kernel_registry on the same instance    *)
(* have the same agent port, hence the same agent_sock.                    *)
C20_DistinctAgentPorts ==
    \A k1, k2 \in DOMAIN kernel_registry :
        (k1 # k2 /\ kernel_registry[k1].instance = kernel_registry[k2].instance) =>
            /\ UrlPort(kernel_registry[k1].agent_sock)
                 # UrlPort(kernel_registry[k2].agent_sock)
            /\ kernel_registry[k1].agent_sock # kernel_registry[k2].agent_sock

(* Two kernels on one instance, the second created after a CREATE and a    *)
(* DESTROY had been served.                                                *)
C20_Witness ==
    /\ Len(answered) >= 2
    /\ \E k1, k2 \in DOMAIN kernel_registry :
         /\ k1 # k2
         /\ k1 \notin DOMAIN pre.kr
         /\ kernel_registry[k1].instance = kernel_registry[k2].instance

(* C19: once shutdown has cancelled the subscriber task, the subscriber    *)
(* has closed its socket and returned, no frame is read or dispatched any  *)
(* more, the await of shutdown ended without an error, and the handlers    *)
(* scheduled before are still queued or have been started.                 *)
C19_CancelIsClean ==
    shutdown.result # "none" =>
        /\ sock_closed
        /\ sub_pc = "done"
        /\ shutdown.result = "returned"
        /\ Len(received) = shutdown.received
        /\ Len(ready) + Len(invoked) = shutdown.scheduled

====
